---- MODULE Spec2Model ----
(***************************************************************************)
(* Model of firmware/firmware_handler.py (class FirmwareHandler).          *)
(*                                                                         *)
(* Python str values are sequences of one-character strings, Python lists  *)
(* are sequences, and an uncaught Python exception is the flag `raised`.   *)
(* Each public or private method of the handler is one action; the         *)
(* environment (transport outcomes, manifest file, storage directory) is   *)
(* an input of the action.                                                 *)
(***************************************************************************)
EXTENDS Integers, Sequences, FiniteSets, TLC

VARIABLES firmwares, files, server, last

vars == <<firmwares, files, server, last>>

(***************************************************************************)
(* Bounds of the model.                                                    *)
(***************************************************************************)
MaxAttempts == 3
MaxRows == 2
MaxModelLen == 4
MaxCatalog == 3
MaxEntries == 3
MaxServerRows == 1
MaxLines == 9
MaxLookups == 3

(***************************************************************************)
(* Python string and list primitives.                                      *)
(***************************************************************************)

\* The one element of a singleton set.  Only({e(x) : x \in {v}}) is e(v), with
\* v computed once.
Only(S) == CHOOSE x \in S : TRUE

\* s[i:] for a 1-based start i
Drop(s, i) == SubSeq(s, i, Len(s))

\* sub occurs in s at position i, for 1 <= i <= Len(s) - Len(sub) + 1
OccursAt(s, sub, i) == \A k \in 1..Len(sub) : s[i + k - 1] = sub[k]

\* every position where sub occurs in s
Hits(s, sub) == {i \in 1..(Len(s) - Len(sub) + 1) : OccursAt(s, sub, i)}

\* the least position of hits that is >= start, 0 when there is none
NextHit(hits, start) ==
    Only({IF later = {} THEN 0 ELSE CHOOSE i \in later : \A j \in later : i <= j
          : later \in {{i \in hits : i >= start}}})

\* str.find: position (1-based) of the first occurrence, 0 when there is none
Find(s, sub) == NextHit(Hits(s, sub), 1)

\* sub in s
Contains(s, sub) == \E i \in 1..(Len(s) - Len(sub) + 1) : OccursAt(s, sub, i)

\* the parts of s from position start on, cut at the leftmost non-overlapping
\* occurrences among hits
RECURSIVE SplitFrom(_, _, _, _)
SplitFrom(s, sep, hits, start) ==
    Only({IF i = 0 THEN <<SubSeq(s, start, Len(s))>>
          ELSE <<SubSeq(s, start, i - 1)>> \o SplitFrom(s, sep, hits, i + Len(sep))
          : i \in {NextHit(hits, start)}})

\* str.split(sep): leftmost non-overlapping occurrences, always >= 1 part
Split(s, sep) == Only({SplitFrom(s, sep, hits, 1) : hits \in {Hits(s, sep)}})

\* str.replace(old, new)
RECURSIVE JoinWith(_, _)
JoinWith(parts, new) ==
    IF Len(parts) = 1 THEN parts[1]
    ELSE parts[1] \o new \o JoinWith(Tail(parts), new)

Replace(s, old, new) == JoinWith(Split(s, old), new)

\* a slice that keeps one element more: list[:-(n - 1)]
DropLastButOne(l, n) == IF Len(l) > n - 1 THEN SubSeq(l, 1, Len(l) - (n - 1)) ELSE <<>>

\* list[:-n]
DropLast(l, n) == IF Len(l) > n THEN SubSeq(l, 1, Len(l) - n) ELSE <<>>

Digits == <<"0", "1", "2", "3", "4", "5", "6", "7", "8", "9">>

\* str(n) for n >= 0
RECURSIVE Str(_)
Str(n) ==
    IF n < 10 THEN <<Digits[n + 1]>>
    ELSE Str(n \div 10) \o <<Digits[(n % 10) + 1]>>

UpperChars == <<"A", "B", "C", "D", "E", "F", "G", "H", "I", "J", "K", "L", "M",
                "N", "O", "P", "Q", "R", "S", "T", "U", "V", "W", "X", "Y", "Z">>
LowerChars == <<"a", "b", "c", "d", "e", "f", "g", "h", "i", "j", "k", "l", "m",
                "n", "o", "p", "q", "r", "s", "t", "u", "v", "w", "x", "y", "z">>

\* the position of c in the sequence of characters chars, 0 when absent
IndexIn(chars, c) ==
    IF \E i \in DOMAIN chars : chars[i] = c
    THEN CHOOSE i \in DOMAIN chars : chars[i] = c
    ELSE 0

LowerChar(c) ==
    IF IndexIn(UpperChars, c) # 0 THEN LowerChars[IndexIn(UpperChars, c)] ELSE c

\* a normalisation that keeps the case of the letters
LowerKeepsCase(s) == s

\* str.lower()
Lower(s) == [i \in 1..Len(s) |-> LowerChar(s[i])]

\* the regular expression class \w
IsWordChar(c) ==
    \/ IndexIn(UpperChars, c) # 0
    \/ IndexIn(LowerChars, c) # 0
    \/ IndexIn(Digits, c) # 0
    \/ c = "_"

\* re.sub(r'(?:[^\w])', '-', s)
SubNonWord(s) == [i \in 1..Len(s) |-> IF IsWordChar(s[i]) THEN s[i] ELSE "-"]

(***************************************************************************)
(* _download_file: one fetch attempt.  The outcome of the attempt is the   *)
(* environment's: "oserror" (os.makedirs fails other than EEXIST),         *)
(* "fetchFail" (urlretrieve raises), "mismatch" / "match" (urlretrieve     *)
(* succeeds; the stored file then fails / passes Firmware.check_hash).     *)
(***************************************************************************)
Outcomes == {"oserror", "fetchFail", "mismatch", "match"}

\* what the transport did in an attempt with the given outcome
FetchOf(outcome) == IF outcome \in {"mismatch", "match"} THEN "ok" ELSE outcome

\* _create_path: an os.makedirs error other than EEXIST is re-raised
CreatePath(fetch) == [raised |-> fetch = "oserror"]

\* _download_file: True when urlretrieve returns, False when it raises
DownloadFile(fetch) ==
    IF CreatePath(fetch).raised THEN [raised |-> TRUE, value |-> FALSE]
    ELSE [raised |-> FALSE, value |-> fetch = "ok"]

\* Firmware.check_hash on the file the attempt stored
CheckHash(outcome) == outcome = "match"

(***************************************************************************)
(* _verified_download                                                      *)
(***************************************************************************)
ScriptLen == MaxAttempts + 1
Scripts == [1..ScriptLen -> Outcomes]

\* a loop that allows one attempt more than max_attempts
VerifiedLoopCondOffByOne(valid_download, count, max_attempts) ==
    (~valid_download) /\ (count <= max_attempts)

\* while (not valid_download) & (count < max_attempts)
VerifiedLoopCond(valid_download, count, max_attempts) ==
    (~valid_download) /\ (count < max_attempts)

\* the loop; st = [valid_download, count, fetches, hash_checks, raised]
RECURSIVE VerifiedLoop(_, _, _)
VerifiedLoop(st, script, max_attempts) ==
    IF st.raised \/ ~VerifiedLoopCond(st.valid_download, st.count, max_attempts)
    THEN st
    ELSE LET outcome == script[st.count + 1]
             dl == DownloadFile(FetchOf(outcome))
         IN  IF dl.raised
             THEN [st EXCEPT !.raised = TRUE, !.fetches = @ + 1]
             ELSE VerifiedLoop(
                    [st EXCEPT !.valid_download = IF dl.value THEN CheckHash(outcome) ELSE FALSE,
                               !.hash_checks = IF dl.value THEN @ + 1 ELSE @,
                               !.fetches = @ + 1,
                               !.count = @ + 1],
                    script, max_attempts)

\* if count >= max_attempts: return False else: return True
VerifiedDownload(script, max_attempts) ==
    Only({[raised |-> st.raised,
           value |-> IF st.raised THEN FALSE ELSE ~(st.count >= max_attempts),
           count |-> st.count,
           fetches |-> st.fetches,
           hash_checks |-> st.hash_checks,
           stored |-> st.hash_checks > 0]    \* urlretrieve wrote the file
          : st \in {VerifiedLoop([valid_download |-> FALSE, count |-> 0, fetches |-> 0,
                                  hash_checks |-> 0, raised |-> FALSE],
                                 script, max_attempts)}})

\* The storage directory of the release model: whether it exists, and the
\* names of the files in it.
NoFiles == [exists |-> FALSE, names |-> {}]

\* The server is not used.
NoServer == [rows |-> <<>>, scripts |-> <<>>, mscript |-> <<>>]

InitVD ==
    /\ firmwares = <<>>
    /\ files = NoFiles
    /\ server = NoServer
    /\ \E max_attempts \in 0..MaxAttempts, script \in Scripts :
          last = [op |-> "_verified_download", phase |-> "call",
                  max_attempts |-> max_attempts, script |-> script]

CallVerifiedDownload ==
    /\ last.op = "_verified_download"
    /\ last.phase = "call"
    /\ last' = [op |-> "_verified_download", phase |-> "return",
                max_attempts |-> last.max_attempts, script |-> last.script,
                ret |-> VerifiedDownload(last.script, last.max_attempts)]
    /\ UNCHANGED <<firmwares, files, server>>

NextVD == CallVerifiedDownload

SpecVD == InitVD /\ [][NextVD]_vars

VDReturned == last.op = "_verified_download" /\ last.phase = "return"

\* the attempts the call may consume
Attempted == 1..last.max_attempts

\* C1: _verified_download returns True exactly when one of the first
\* max_attempts attempts fetched the file and its hash matched (the last
\* allowed attempt included), for every sequence of attempt outcomes.
C1_TrueIffSomeAttemptMatches ==
    (VDReturned /\ \A k \in Attempted : last.script[k] # "oserror")
        => (last.ret.value <=> \E k \in Attempted : last.script[k] = "match")

\* C2: with max_attempts >= 1, a transport that always succeeds and a hash
\* that always matches, the call makes exactly one fetch and returns True.
C2_AlwaysGoodOneAttempt ==
    (VDReturned /\ last.max_attempts >= 1
                /\ \A k \in DOMAIN last.script : last.script[k] = "match")
        => (last.ret.fetches = 1 /\ last.ret.value = TRUE)

\* C3: with max_attempts >= 0 and a transport whose every fetch fails, the
\* call returns False after exactly max_attempts fetches, never more, and
\* never checks a hash.
C3_AlwaysFailExhausts ==
    (VDReturned /\ \A k \in DOMAIN last.script : last.script[k] = "fetchFail")
        => /\ ~last.ret.raised
           /\ last.ret.value = FALSE
           /\ last.ret.fetches = last.max_attempts
           /\ last.ret.count = last.max_attempts
           /\ last.ret.hash_checks = 0

C3_Witness ==
    /\ VDReturned
    /\ \A k \in DOMAIN last.script : last.script[k] = "fetchFail"
    /\ last.max_attempts >= 2
    /\ last.ret.fetches = last.max_attempts
    /\ last.ret.value = FALSE

(***************************************************************************)
(* String constants of the handler.                                        *)
(***************************************************************************)
GLUON == <<"g", "l", "u", "o", "n">>
UPDATE_TYPE == <<"s", "y", "s", "u", "p", "g", "r", "a", "d", "e">>
DASH_SYSUPGRADE == <<"-">> \o UPDATE_TYPE
END_MARK == <<"-", "-", "-", "\n">>
DOT_MANIFEST == <<".", "m", "a", "n", "i", "f", "e", "s", "t">>

\* the project root (the directory above the package of this file)
BASE_DIR == <<"/", "r">>
FIRMWARE_PATH == BASE_DIR \o <<"/">> \o
    <<"f", "i", "r", "m", "w", "a", "r", "e", "/", "f", "i", "r", "m", "w", "a", "r", "e", "s">>

\* self.url, the constructor's argument
HandlerUrl == <<"h", "t", "t", "p", ":", "/", "/", "s">>

STABLE == <<"s", "t", "a", "b", "l", "e">>

\* Firmware(name, version, freifunk_verein, release_model, file, url)
Firmware(name, version, freifunk_verein, release_model, file, url) ==
    [name |-> name, version |-> version, freifunk_verein |-> freifunk_verein,
     release_model |-> release_model, file |-> file, url |-> url]

\* <FIRMWARE_PATH>/<release_model>/sysupgrade/<name>
StoragePath(release_model, name) ==
    FIRMWARE_PATH \o <<"/">> \o release_model \o <<"/">> \o UPDATE_TYPE \o <<"/">> \o name

\* <url>/<release_model>/sysupgrade/<name>
SourceUrl(release_model, name) ==
    HandlerUrl \o <<"/">> \o release_model \o <<"/">> \o UPDATE_TYPE \o <<"/">> \o name

(***************************************************************************)
(* _download_manifest                                                      *)
(***************************************************************************)
MaxCount == 3

FetchOutcomes == {"oserror", "fetchFail", "ok"}
FetchScriptLen == MaxCount + 1
FetchScripts == [1..FetchScriptLen -> FetchOutcomes]

\* while (not valid_download) & (count < max_count)
ManifestLoopCond(valid_download, count, max_count) ==
    (~valid_download) /\ (count < max_count)

RECURSIVE ManifestLoop(_, _, _)
ManifestLoop(st, script, max_count) ==
    IF st.raised \/ ~ManifestLoopCond(st.valid_download, st.count, max_count)
    THEN st
    ELSE LET dl == DownloadFile(script[st.count + 1])
         IN  IF dl.raised
             THEN [st EXCEPT !.raised = TRUE, !.fetches = @ + 1]
             ELSE ManifestLoop([st EXCEPT !.valid_download = dl.value,
                                         !.fetches = @ + 1,
                                         !.count = @ + 1],
                               script, max_count)

\* the file name of the manifest in the storage directory
ManifestFileName(release_model) == release_model \o DOT_MANIFEST

\* if count >= max_count: return "" else: return file
DownloadManifest(release_model, script, max_count) ==
    LET file == StoragePath(release_model, ManifestFileName(release_model))
    IN  Only({[raised |-> st.raised,
               value |-> IF st.raised \/ st.count >= max_count THEN <<>> ELSE file,
               stored |-> st.valid_download,      \* urlretrieve wrote the file
               created |-> script[1] # "oserror", \* os.makedirs made the directory
               fetches |-> st.fetches]
              : st \in {ManifestLoop([valid_download |-> FALSE, count |-> 0,
                                      fetches |-> 0, raised |-> FALSE],
                                     script, max_count)}})

(***************************************************************************)
(* _download_manifest called on its own: the transport's behaviour for     *)
(* the successive fetches of the manifest is script, and max_count is the  *)
(* default or a smaller positive number.                                   *)
(***************************************************************************)
InitManifest ==
    /\ firmwares = <<>>
    /\ files = NoFiles
    /\ server = NoServer
    /\ \E script \in FetchScripts, max_count \in 1..MaxCount :
          last = [op |-> "_download_manifest", phase |-> "call", release_model |-> STABLE,
                  script |-> script, max_count |-> max_count]

CallDownloadManifest ==
    /\ last.op = "_download_manifest"
    /\ last.phase = "call"
    /\ \E ret \in {DownloadManifest(last.release_model, last.script, last.max_count)} :
          /\ last' = [last EXCEPT !.phase = "return"] @@ [ret |-> ret]
          /\ files' = [exists |-> files.exists \/ ret.created,
                       names |-> IF ret.stored
                                 THEN files.names \cup {ManifestFileName(last.release_model)}
                                 ELSE files.names]
    /\ UNCHANGED <<firmwares, server>>

NextManifest == CallDownloadManifest

SpecManifest == InitManifest /\ [][NextManifest]_vars

\* _download_manifest returned a value (no filesystem error was raised)
ManifestReturned ==
    last.op = "_download_manifest" /\ last.phase = "return" /\ ~last.ret.raised

\* the allowed attempts at which the transport delivers the manifest
GoodAttempts == {k \in 1..last.max_count : last.script[k] = "ok"}

\* C20: _download_manifest fetches at most max_count times and stops at the
\* first fetch that succeeds; it returns the path of the manifest file when
\* one of the allowed attempts succeeded, the last one included, and the
\* empty path only when all of them failed.
C20_PathIffAttemptSucceeded ==
    ManifestReturned
        => /\ last.ret.fetches <= last.max_count
           /\ GoodAttempts # {} =>
                 /\ \A k \in GoodAttempts : last.ret.fetches <= k
                 /\ last.ret.value =
                       StoragePath(last.release_model, ManifestFileName(last.release_model))
           /\ GoodAttempts = {} =>
                 /\ last.ret.fetches = last.max_count
                 /\ last.ret.value = <<>>

(***************************************************************************)
(* _read_firmwares_from_manifest: `manifest` is the sequence of lines the  *)
(* server publishes, each with its line terminator.                        *)
(***************************************************************************)
HeaderLines == 4
FooterLines == 3

\* "[" + str(i - 4) + "]  " + line, for the lines with i >= 4 (0-based)
NumberedLines(lines) ==
    [k \in 1..(IF Len(lines) > HeaderLines THEN Len(lines) - HeaderLines ELSE 0) |->
        <<"[">> \o Str(k - 1) \o <<"]", " ", " ">> \o lines[k + HeaderLines]]

ReadFirmwaresFromManifest(release_model, manifest, script) ==
    Only({LET io == [stored |-> dm.stored, created |-> dm.created, fetches |-> dm.fetches]
          IN  IF dm.raised THEN [raised |-> TRUE, value |-> <<>>] @@ io
              ELSE IF dm.value = <<>>                       \* open("") raises
              THEN [raised |-> TRUE, value |-> <<>>] @@ io
              ELSE [raised |-> FALSE,
                    value |-> DropLast(NumberedLines(manifest), FooterLines)] @@ io
          : dm \in {DownloadManifest(release_model, script, MaxCount)}})

(***************************************************************************)
(* _get_all_firmwares                                                      *)
(***************************************************************************)
\* the field before the hash: firmware.split(' ')[3]
HashIndexOffByOne == 2 + 1

\* firmware.split(' ')[4]
HashIndex == 4

\* "gluon" + firmware.split("gluon")[1].split("-sysupgrade")[0] + "-" +
\* UPDATE_TYPE + "." + firmware.split(".")[-1].replace("\n", "")
FirmwareName(firmware) ==
    LET dotted == Split(firmware, <<".">>)
    IN  GLUON \o Split(Split(firmware, GLUON)[2], DASH_SYSUPGRADE)[1] \o <<"-">> \o
        UPDATE_TYPE \o <<".">> \o Replace(dotted[Len(dotted)], <<"\n">>, <<>>)

\* one iteration of the loop body: the entry is skipped, raises IndexError,
\* or yields a Firmware and its hash
ParseEntry(firmware, release_model) ==
    IF Find(firmware, END_MARK) # 0
    THEN [skip |-> TRUE, raised |-> FALSE]
    ELSE IF Len(Split(firmware, GLUON)) < 2
    THEN [skip |-> FALSE, raised |-> TRUE]
    ELSE Only({Only({
             IF Len(fields) < HashIndex + 1 \/ Len(segments) < 3
             THEN [skip |-> FALSE, raised |-> TRUE]
             ELSE [skip |-> FALSE, raised |-> FALSE,
                   hash |-> fields[HashIndex + 1],
                   firmware |-> Firmware(firmware_name, segments[3], segments[2],
                                         release_model,
                                         StoragePath(release_model, firmware_name),
                                         SourceUrl(release_model, firmware_name))]
             : segments \in {Split(firmware_name, <<"-">>)}})
           : firmware_name \in {FirmwareName(firmware)},
             fields \in {Split(firmware, <<" ">>)}})

RECURSIVE ParseEntries(_, _, _)
ParseEntries(non_parsed, release_model, acc) ==
    IF non_parsed = <<>> \/ acc.raised THEN acc
    ELSE ParseEntries(Tail(non_parsed), release_model,
            Only({IF e.skip THEN acc
                  ELSE IF e.raised THEN [acc EXCEPT !.raised = TRUE]
                  ELSE [acc EXCEPT !.firmwares = Append(@, e.firmware),
                                   !.hashs = Append(@, e.hash)]
                  : e \in {ParseEntry(Head(non_parsed), release_model)}}))

GetAllFirmwares(release_model, manifest, script) ==
    Only({Only({
        LET io == [created |-> rd.created,
                   stored |-> IF rd.stored THEN {ManifestFileName(release_model)} ELSE {}]
        IN  IF rd.raised
            THEN [raised |-> TRUE, read |-> FALSE, firmwares |-> <<>>, hashs |-> <<>>,
                  entries |-> <<>>] @@ io
            ELSE IF pe.raised
            THEN [raised |-> TRUE, read |-> TRUE, firmwares |-> <<>>, hashs |-> <<>>,
                  entries |-> rd.value] @@ io
            ELSE [raised |-> FALSE, read |-> TRUE, firmwares |-> pe.firmwares,
                  hashs |-> pe.hashs, entries |-> rd.value] @@ io
        : pe \in {ParseEntries(rd.value, release_model,
                               [raised |-> FALSE, firmwares |-> <<>>, hashs |-> <<>>])}})
      : rd \in {ReadFirmwaresFromManifest(release_model, manifest, script)}})

(***************************************************************************)
(* Manifests given to the parser.  A row is described by its fields and    *)
(* rendered to the text of a line; `kind` is the layout of the line.       *)
(***************************************************************************)
ORG == <<"f", "f">>

\* gluon-<org>-<version>-<model>-sysupgrade.<ext>
ImageName(r) ==
    GLUON \o <<"-">> \o ORG \o <<"-">> \o r.version \o <<"-">> \o r.model \o
    DASH_SYSUPGRADE \o <<".">> \o r.ext

\* gluon-<org>-<version>-sysupgrade.<ext>
PlainImageName(r) ==
    GLUON \o <<"-">> \o ORG \o <<"-">> \o r.version \o DASH_SYSUPGRADE \o <<".">> \o r.ext

RenderRow(r) ==
    CASE r.kind = "published" ->   \* <model> <version> <hash> <image name>
            r.model \o <<" ">> \o r.version \o <<" ">> \o r.hash \o <<" ">> \o
            ImageName(r) \o <<"\n">>
      [] r.kind = "nameFirst" ->   \* <image name> x y z <hash>
            PlainImageName(r) \o <<" ", "x", " ", "y", " ", "z", " ">> \o r.hash \o <<"\n">>
      [] r.kind = "noSysupgrade" -> \* <model> <version> <hash> gluon-<org>-<version>-<model>.<ext>
            r.model \o <<" ">> \o r.version \o <<" ">> \o r.hash \o <<" ">> \o
            GLUON \o <<"-">> \o ORG \o <<"-">> \o r.version \o <<"-">> \o r.model \o
            <<".">> \o r.ext \o <<"\n">>
      [] r.kind = "noGluon" ->     \* <model> <version> <hash> x <org>-<version>-<model>-sysupgrade.<ext>
            r.model \o <<" ">> \o r.version \o <<" ">> \o r.hash \o <<" ", "x", " ">> \o
            ORG \o <<"-">> \o r.version \o <<"-">> \o r.model \o
            DASH_SYSUPGRADE \o <<".">> \o r.ext \o <<"\n">>
      [] r.kind = "twoFields" ->   \* <image name> <hash>
            ImageName(r) \o <<" ">> \o r.hash \o <<"\n">>
      [] r.kind = "threeFields" -> \* <image name> <hash> x
            ImageName(r) \o <<" ">> \o r.hash \o <<" ", "x", "\n">>

RowA(kind) == [kind |-> kind, model |-> <<"a", "-", "v", "1">>, version |-> <<"1", ".", "2">>,
               hash |-> <<"h", "1">>, ext |-> <<"b", "i", "n">>]
RowB(kind) == [kind |-> kind, model |-> <<"b", "-", "v", "2">>, version |-> <<"1", ".", "3">>,
               hash |-> <<"h", "2">>, ext |-> <<"i", "m", "g">>]

RowKinds == {"published", "nameFirst", "noSysupgrade", "noGluon", "twoFields", "threeFields"}
MalformedKinds == {"noSysupgrade", "noGluon", "twoFields", "threeFields"}

Rows == {RowA(k) : k \in RowKinds} \cup {RowB("published"), RowB("nameFirst")}

SeqsUpTo(S, n) == UNION {[1..k -> S] : k \in 0..n}

HeaderRows == <<<<"B", "\n">>, <<"D", "\n">>, <<"P", "\n">>, <<"\n">>>>

\* "---" alone, or "---" and two signature lines
Footers == {<<END_MARK>>, <<END_MARK, <<"s", "1", "\n">>, <<"s", "2", "\n">>>>}

RenderManifest(rows, footer) ==
    HeaderRows \o [k \in 1..Len(rows) |-> RenderRow(rows[k])] \o footer

\* k failing fetches, then fetches that succeed
FailThenOk(k) == [i \in 1..FetchScriptLen |-> IF i <= k THEN "fetchFail" ELSE "ok"]
ParseFetchScripts ==
    {FailThenOk(k) : k \in 0..FetchScriptLen} \cup {[i \in 1..FetchScriptLen |-> "oserror"]}

InitParse ==
    /\ firmwares = <<>>
    /\ files = NoFiles
    /\ server = NoServer
    /\ \E rows \in SeqsUpTo(Rows, MaxRows), footer \in Footers, script \in ParseFetchScripts :
          last = [op |-> "_get_all_firmwares", phase |-> "call", release_model |-> STABLE,
                  rows |-> rows, footer |-> footer, script |-> script]

CallGetAllFirmwares ==
    /\ last.op = "_get_all_firmwares"
    /\ last.phase = "call"
    /\ last' = [last EXCEPT !.phase = "return"] @@
               [ret |-> GetAllFirmwares(last.release_model,
                                        RenderManifest(last.rows, last.footer), last.script)]
    /\ UNCHANGED <<firmwares, files, server>>

NextParse == CallGetAllFirmwares

SpecParse == InitParse /\ [][NextParse]_vars

ParseReturned == last.op = "_get_all_firmwares" /\ last.phase = "return"

\* the manifest file was fetched and opened
ManifestRead == ParseReturned /\ last.ret.read

AllRowsOfKind(kind) == \A k \in DOMAIN last.rows : last.rows[k].kind = kind

\* the parser's k-th entry is the record of row k with the fields given
EntryIs(k, name, version, hash) ==
    /\ last.ret.firmwares[k].name = name
    /\ last.ret.firmwares[k].freifunk_verein = Split(name, <<"-">>)[2]
    /\ last.ret.firmwares[k].freifunk_verein = ORG
    /\ last.ret.firmwares[k].version = Split(name, <<"-">>)[3]
    /\ last.ret.firmwares[k].version = version
    /\ last.ret.hashs[k] = hash

\* C8 as stated: 4 header rows, data rows "<image name> . . . <hash>" (name
\* first, hash fifth) and a "---" footer give one entry per data row with the
\* row's name, organization, version and hash.
C8_NameFirstHashFifth ==
    (ManifestRead /\ AllRowsOfKind("nameFirst"))
        => /\ ~last.ret.raised
           /\ Len(last.ret.firmwares) = Len(last.rows)
           /\ Len(last.ret.hashs) = Len(last.rows)
           /\ \A k \in DOMAIN last.rows :
                EntryIs(k, PlainImageName(last.rows[k]), last.rows[k].version,
                        last.rows[k].hash)

ThreeLineFooter == Len(last.footer) = FooterLines

\* C8 amended: 4 header rows, data rows "<model> <version> <hash> <image name>"
\* (image name last, hash third) and a three-line footer ("---" and two more
\* lines) give one entry per data row, in order, with the row's image name,
\* its 2nd and 3rd hyphen-delimited segments as organization and version, and
\* the row's third field as hash.
C8_PublishedLayoutParsed ==
    (ManifestRead /\ AllRowsOfKind("published") /\ ThreeLineFooter)
        => /\ ~last.ret.raised
           /\ Len(last.ret.firmwares) = Len(last.rows)
           /\ Len(last.ret.hashs) = Len(last.rows)
           /\ \A k \in DOMAIN last.rows :
                EntryIs(k, ImageName(last.rows[k]), last.rows[k].version,
                        last.rows[k].hash)

C8_Witness ==
    /\ ManifestRead
    /\ AllRowsOfKind("published")
    /\ ThreeLineFooter
    /\ Len(last.rows) = 2
    /\ last.rows[1] # last.rows[2]
    /\ Len(last.ret.firmwares) = 2
    /\ last.ret.hashs = <<last.rows[1].hash, last.rows[2].hash>>

\* the entry handed to the parser is one the claim C9 calls malformed: fewer
\* than 5 fields (counted as the parser counts them, on the numbered entry),
\* or no "gluon", or no "-sysupgrade"
Malformed(entry) ==
    \/ Len(Split(entry, <<" ">>)) < 5
    \/ ~Contains(entry, GLUON)
    \/ ~Contains(entry, DASH_SYSUPGRADE)

\* C9: when a data line handed to the parser is not the end marker and has
\* fewer than 5 fields or lacks "gluon" or "-sysupgrade", parsing raises an
\* error: the line is not skipped and no records and hashes are returned.
C9_MalformedLineRaises ==
    (ManifestRead
        /\ \E k \in DOMAIN last.ret.entries :
              /\ Find(last.ret.entries[k], END_MARK) = 0
              /\ Malformed(last.ret.entries[k]))
        => last.ret.raised

(***************************************************************************)
(* _get_all_firmwares on manifest files of any length: every line is a     *)
(* data row or the end marker, wherever it stands in the file.             *)
(***************************************************************************)
ManifestLines == {RenderRow(RowA("published")), END_MARK}

InitLines ==
    /\ firmwares = <<>>
    /\ files = NoFiles
    /\ server = NoServer
    /\ \E manifest \in SeqsUpTo(ManifestLines, MaxLines) :
          last = [op |-> "_get_all_firmwares", phase |-> "call", release_model |-> STABLE,
                  manifest |-> manifest, script |-> FailThenOk(0)]

CallGetAllFirmwaresOnFile ==
    /\ last.op = "_get_all_firmwares"
    /\ last.phase = "call"
    /\ last' = [last EXCEPT !.phase = "return"] @@
               [ret |-> GetAllFirmwares(last.release_model, last.manifest, last.script)]
    /\ UNCHANGED <<firmwares, files, server>>

NextLines == CallGetAllFirmwaresOnFile

SpecLines == InitLines /\ [][NextLines]_vars

\* entry is the line, behind a "[n]  " prefix
EntryOfLine(entry, line) ==
    /\ Len(entry) > Len(line)
    /\ SubSeq(entry, Len(entry) - Len(line) + 1, Len(entry)) = line
    /\ entry[1] = "["
    /\ SubSeq(entry, Len(entry) - Len(line) - 2, Len(entry) - Len(line)) = <<"]", " ", " ">>

\* C17: for a manifest file of L lines the entries handed to the parser are
\* the lines with 0-based index i, 4 <= i < L - 3, in file order (none when
\* L <= 7), and of these only the lines holding the end marker give no record.
C17_EntriesAreMiddleLines ==
    ParseReturned
        => LET L == Len(last.manifest)
               entries == last.ret.entries
           IN  /\ last.ret.read
               /\ ~last.ret.raised
               /\ Len(entries) = IF L <= 7 THEN 0 ELSE L - 7
               /\ \A k \in DOMAIN entries : EntryOfLine(entries[k], last.manifest[k + 4])
               /\ Len(last.ret.firmwares) =
                    Cardinality({k \in DOMAIN entries : last.manifest[k + 4] # END_MARK})

\* a file of 9 lines whose first line is a data row and whose two middle
\* lines are a data row and the end marker
C17_Witness ==
    /\ ParseReturned
    /\ Len(last.manifest) = 9
    /\ last.manifest[1] # END_MARK
    /\ last.manifest[5] # END_MARK
    /\ last.manifest[6] = END_MARK
    /\ last.manifest[9] # END_MARK
    /\ Len(last.ret.entries) = 2
    /\ Len(last.ret.firmwares) = 1

(***************************************************************************)
(* _parse_router_model                                                     *)
(***************************************************************************)
SPACE_V == <<" ", "v">>

\* a parser that takes a router model without ' v' as a name without version
ParseRouterModelLenient(router_model) ==
    [raised |-> FALSE,
     router_model_name |-> SubNonWord(Lower(Split(router_model, SPACE_V)[1])),
     router_model_version |-> <<"v">>]

\* a router model with no ' v' makes tmp[1] raise IndexError
ParseRouterModel(router_model) ==
    LET tmp == Split(router_model, SPACE_V)
    IN  IF Len(tmp) < 2 THEN [raised |-> TRUE]
        ELSE [raised |-> FALSE,
              router_model_name |-> SubNonWord(Lower(tmp[1])),
              router_model_version |-> <<"v">> \o tmp[2]]

\* router model strings: concatenations of at most MaxModelLen pieces
Pieces == {<<"T">>, <<" ", "v">>, <<"9">>, <<"/">>, <<" ">>, <<"_">>}

RECURSIVE Flatten(_)
Flatten(ss) == IF ss = <<>> THEN <<>> ELSE Head(ss) \o Flatten(Tail(ss))

RouterModels == {Flatten(ps) : ps \in SeqsUpTo(Pieces, MaxModelLen)}

InitModel ==
    /\ firmwares = <<>>
    /\ files = NoFiles
    /\ server = NoServer
    /\ \E router_model \in RouterModels :
          last = [op |-> "_parse_router_model", phase |-> "call",
                  router_model |-> router_model]

CallParseRouterModel ==
    /\ last.op = "_parse_router_model"
    /\ last.phase = "call"
    /\ last' = [last EXCEPT !.phase = "return"] @@
               [ret |-> ParseRouterModel(last.router_model)]
    /\ UNCHANGED <<firmwares, files, server>>

NextModel == CallParseRouterModel

SpecModel == InitModel /\ [][NextModel]_vars

ModelReturned == last.op = "_parse_router_model" /\ last.phase = "return"

\* position of the last occurrence of sub in s (str.rfind), 0 when none
RFind(s, sub) ==
    LET hits == Hits(s, sub)
    IN  IF hits = {} THEN 0
        ELSE CHOOSE i \in hits : \A j \in hits : j <= i

\* C10: a router model containing ' v' is split at the LAST occurrence of
\* ' v': the name part is (the normalisation of) everything before it, the
\* version is 'v' followed by everything after it.
C10_SplitAtLastSeparator ==
    (ModelReturned /\ Contains(last.router_model, SPACE_V))
        => LET i == RFind(last.router_model, SPACE_V)
           IN  /\ ~last.ret.raised
               /\ last.ret.router_model_name =
                    SubNonWord(Lower(SubSeq(last.router_model, 1, i - 1)))
               /\ last.ret.router_model_version =
                    <<"v">> \o Drop(last.router_model, i + Len(SPACE_V))

\* the router model holds exactly one ' v'
OneSeparator(router_model) == Cardinality(Hits(router_model, SPACE_V)) = 1

Alphanumeric ==
    {UpperChars[i] : i \in DOMAIN UpperChars} \cup
    {LowerChars[i] : i \in DOMAIN LowerChars} \cup
    {Digits[i] : i \in DOMAIN Digits}

\* c is the character the normalised name holds in place of d: the lower
\* case of a letter, a digit or underscore itself, a hyphen for the rest
NormalisedAs(d, c) ==
    IF \E i \in DOMAIN UpperChars : UpperChars[i] = d
    THEN \E i \in DOMAIN UpperChars : UpperChars[i] = d /\ c = LowerChars[i]
    ELSE IF d \in Alphanumeric \/ d = "_" THEN c = d
    ELSE c = "-"

\* C11: for a router model with exactly one ' v', the name returned has the
\* length of the text before the separator and holds, position by position,
\* its lower-cased character, or one hyphen where it is neither alphanumeric
\* nor underscore; the version returned is 'v' + the text after the separator.
C11_NameNormalised ==
    (ModelReturned /\ OneSeparator(last.router_model))
        => LET i == Find(last.router_model, SPACE_V)
               name == last.ret.router_model_name
           IN  /\ ~last.ret.raised
               /\ Len(name) = i - 1
               /\ \A k \in 1..(i - 1) : NormalisedAs(last.router_model[k], name[k])
               /\ last.ret.router_model_version =
                    <<"v">> \o Drop(last.router_model, i + Len(SPACE_V))

\* an upper-case letter and a slash before the separator, a digit after it
C11_Witness ==
    /\ ModelReturned
    /\ OneSeparator(last.router_model)
    /\ ~last.ret.raised
    /\ last.ret.router_model_name = <<"t", "-">>
    /\ last.ret.router_model_version = <<"v", "9">>

(***************************************************************************)
(* download_all_firmwares                                                  *)
(***************************************************************************)
DefaultMaxAttempts == 3

\* del(l[i]) for a 0-based index i
DelAt(l, i) == SubSeq(l, 1, i) \o SubSeq(l, i + 2, Len(l))

\* a loop whose body deletes the failed record but leaves the hash list alone
RECURSIVE DownloadAllLoopKeepsHashs(_, _, _)
DownloadAllLoopKeepsHashs(st, scripts, max_attemps) ==
    IF st.raised \/ st.i >= Len(st.firmwares) THEN st
    ELSE Only({
           LET firmware == st.firmwares[st.i + 1]
               called == [st EXCEPT
                            !.calls = Append(@, [name |-> firmware.name,
                                                 hash |-> st.hashs[st.i + 1],
                                                 origin |-> st.origin[st.i + 1]]),
                            !.stored = IF vd.stored THEN @ \cup {firmware.name} ELSE @]
           IN  IF vd.raised THEN [called EXCEPT !.raised = TRUE]
               ELSE DownloadAllLoopKeepsHashs(
                      [called EXCEPT
                          !.firmwares = IF vd.value THEN @ ELSE DelAt(@, st.i),
                          !.origin = IF vd.value THEN @ ELSE DelAt(@, st.i),
                          !.i = @ + 1],
                      scripts, max_attemps)
           : vd \in {VerifiedDownload(scripts[st.origin[st.i + 1]], max_attemps)}})

\* the for loop over enumerate(firmwares): Python's list iterator holds the
\* index i and stops when i >= len(firmwares), evaluated anew at each step,
\* while the body deletes from the list it iterates.  `origin` is the
\* position each remaining element had in the parsed manifest; scripts[o] is
\* the transport's behaviour for the image of position o.
RECURSIVE DownloadAllLoop(_, _, _)
DownloadAllLoop(st, scripts, max_attemps) ==
    IF st.raised \/ st.i >= Len(st.firmwares) THEN st
    ELSE Only({
           LET firmware == st.firmwares[st.i + 1]
               called == [st EXCEPT
                            !.calls = Append(@, [name |-> firmware.name,
                                                 hash |-> st.hashs[st.i + 1],
                                                 origin |-> st.origin[st.i + 1]]),
                            !.stored = IF vd.stored THEN @ \cup {firmware.name} ELSE @]
           IN  IF vd.raised THEN [called EXCEPT !.raised = TRUE]
               ELSE DownloadAllLoop(
                      [called EXCEPT
                          !.firmwares = IF vd.value THEN @ ELSE DelAt(@, st.i),
                          !.hashs = IF vd.value THEN @ ELSE DelAt(@, st.i),
                          !.origin = IF vd.value THEN @ ELSE DelAt(@, st.i),
                          !.i = @ + 1],
                      scripts, max_attemps)
           : vd \in {VerifiedDownload(scripts[st.origin[st.i + 1]], max_attemps)}})

DownloadAllFirmwares(release_model, manifest, mscript, scripts, max_attemps) ==
    Only({
      IF all.raised
      THEN [raised |-> TRUE, value |-> <<>>, parsed |-> <<>>, calls |-> <<>>,
            stored |-> all.stored, created |-> all.created]
      ELSE Only({[raised |-> st.raised,
                  value |-> IF st.raised THEN <<>> ELSE st.firmwares,
                  parsed |-> all.firmwares,
                  calls |-> st.calls,
                  stored |-> all.stored \cup st.stored,
                  created |-> all.created]
                 : st \in {DownloadAllLoop(
                              [i |-> 0, firmwares |-> all.firmwares, hashs |-> all.hashs,
                               origin |-> [k \in 1..Len(all.firmwares) |-> k],
                               calls |-> <<>>, stored |-> {}, raised |-> FALSE],
                              scripts, max_attemps)}})
      : all \in {GetAllFirmwares(release_model, manifest, mscript)}})

\* the storage directory after a download operation that returned ret
AfterDownload(dir, ret) ==
    [exists |-> dir.exists \/ ret.created, names |-> dir.names \cup ret.stored]

\* the transport's behaviour for one image: every attempt has this outcome
Always(outcome) == [i \in 1..ScriptLen |-> outcome]
BatchScripts == {Always("match"), Always("fetchFail"), Always("oserror")}

BatchRows == {RowA("published"), RowB("published"), RowA("noGluon")}

SignedFooter == <<END_MARK, <<"s", "1", "\n">>, <<"s", "2", "\n">>>>

InitBatch ==
    /\ firmwares = <<>>
    /\ files = NoFiles
    /\ server = NoServer
    /\ \E rows \in SeqsUpTo(BatchRows, MaxEntries),
          mscript \in {FailThenOk(0), FailThenOk(FetchScriptLen)} :
          \E scripts \in [1..Len(rows) -> BatchScripts] :
             last = [op |-> "download_all_firmwares", phase |-> "call",
                     release_model |-> STABLE, rows |-> rows, mscript |-> mscript,
                     scripts |-> scripts]

CallDownloadAllFirmwares ==
    /\ last.op = "download_all_firmwares"
    /\ last.phase = "call"
    /\ \E ret \in {DownloadAllFirmwares(last.release_model,
                                          RenderManifest(last.rows, SignedFooter),
                                          last.mscript, last.scripts, DefaultMaxAttempts)} :
           /\ last' = [last EXCEPT !.phase = "return"] @@ [ret |-> ret]
           /\ files' = AfterDownload(files, ret)
    /\ UNCHANGED <<firmwares, server>>

NextBatch == CallDownloadAllFirmwares

SpecBatch == InitBatch /\ [][NextBatch]_vars

BatchReturned == last.op = "download_all_firmwares" /\ last.phase = "return"

\* the batch ran to its end: the manifest was parsed and no attempt raised
BatchCompleted == BatchReturned /\ ~last.ret.raised

\* every image's download ends in True or False (no filesystem error)
NoFatalError ==
    \A k \in DOMAIN last.scripts : \A a \in DOMAIN last.scripts[k] :
        last.scripts[k][a] # "oserror"

\* _verified_download fails for the manifest entry at position k
EntryFails(k) == ~VerifiedDownload(last.scripts[k], DefaultMaxAttempts).value

\* the entries of l from position k on whose verified download succeeds
RECURSIVE VerifiedFrom(_, _)
VerifiedFrom(l, k) ==
    IF k > Len(l) THEN <<>>
    ELSE (IF EntryFails(k) THEN <<>> ELSE <<l[k]>>) \o VerifiedFrom(l, k + 1)

\* C4: the batch returned is exactly the manifest entries that verified, in
\* manifest order: N - K records when K of the N entries fail.
C4_ReturnsExactlyVerified ==
    (BatchCompleted /\ NoFatalError)
        => /\ last.ret.value = VerifiedFrom(last.ret.parsed, 1)
           /\ Len(last.ret.value) =
                Len(last.ret.parsed) - Cardinality({k \in DOMAIN last.ret.parsed : EntryFails(k)})

\* C5: a verified download is attempted for every manifest entry, exactly
\* once and in manifest order, whatever happened to the earlier entries.
C5_EveryEntryAttemptedOnce ==
    (BatchCompleted /\ NoFatalError)
        => [k \in DOMAIN last.ret.calls |-> last.ret.calls[k].origin]
              = [k \in DOMAIN last.ret.parsed |-> k]

\* C19: every verified download of the batch is called with the image name
\* and the expected hash of one and the same manifest entry.
C19_HashOfSameEntry ==
    BatchReturned
        => \A k \in DOMAIN last.ret.calls :
              LET row == last.rows[last.ret.calls[k].origin]
              IN  /\ last.ret.calls[k].name = ImageName(row)
                  /\ last.ret.calls[k].hash = row.hash

\* the first entry failed and was removed, and a later entry with another
\* hash than the entry before it was downloaded afterwards
C19_Witness ==
    /\ BatchCompleted
    /\ Len(last.rows) = 3
    /\ EntryFails(1)
    /\ last.rows[2].hash # last.rows[3].hash
    /\ Len(last.ret.calls) = 2
    /\ last.ret.calls[2].origin = 3
    /\ Len(last.ret.value) < Len(last.ret.parsed)

\* C16: download_all_firmwares raises no error to its caller when the fetch
\* attempts are used up or the manifest cannot be parsed (no filesystem
\* error being involved): it returns a list.
C16_BatchNeverRaises ==
    (BatchReturned /\ NoFatalError) => ~last.ret.raised

(***************************************************************************)
(* import_firmwares                                                        *)
(***************************************************************************)
\* path = FIRMWARE_PATH + '/' + release_model + '/' + self.UPDATE_TYPE + '/'
ImportPath(release_model) ==
    FIRMWARE_PATH \o <<"/">> \o release_model \o <<"/">> \o UPDATE_TYPE \o <<"/">>

\* a loop body that puts the imported record in front of the catalog
ImportOneInFront(catalog, release_model, firmware_name) ==
    LET segments == Split(firmware_name, <<"-">>)
    IN  IF Len(segments) < 3 THEN catalog
        ELSE <<Firmware(firmware_name, segments[3], segments[2], release_model,
                        ImportPath(release_model) \o firmware_name,
                        SourceUrl(release_model, firmware_name))>> \o catalog

\* the body of the loop: a name with fewer than 3 hyphen-delimited segments
\* raises IndexError, which is caught, and the file is skipped
ImportOne(catalog, release_model, firmware_name) ==
    LET segments == Split(firmware_name, <<"-">>)
    IN  IF Len(segments) < 3 THEN catalog
        ELSE Append(catalog,
                    Firmware(firmware_name, segments[3], segments[2], release_model,
                             ImportPath(release_model) \o firmware_name,
                             SourceUrl(release_model, firmware_name)))

\* a loop that gives the import up at the first name it cannot decompose
RECURSIVE ImportLoopStopsAtBadName(_, _, _)
ImportLoopStopsAtBadName(catalog, release_model, listing) ==
    IF listing = <<>> \/ Len(Split(Head(listing), <<"-">>)) < 3 THEN catalog
    ELSE ImportLoopStopsAtBadName(ImportOne(catalog, release_model, Head(listing)),
                                  release_model, Tail(listing))

RECURSIVE ImportLoop(_, _, _)
ImportLoop(catalog, release_model, listing) ==
    IF listing = <<>> THEN catalog
    ELSE ImportLoop(ImportOne(catalog, release_model, Head(listing)),
                    release_model, Tail(listing))

\* os.listdir raises when the directory is missing, and the import returns
ImportFirmwares(catalog, release_model, dir, listing) ==
    IF ~dir.exists THEN catalog
    ELSE ImportLoop(catalog, release_model, listing)

\* os.listdir returns the names in an arbitrary order: one order and its
\* reverse put every two names both ways round
Listings(dir) ==
    LET one == CHOOSE l \in [1..Cardinality(dir.names) -> dir.names] :
                   \A i, j \in DOMAIN l : i # j => l[i] # l[j]
    IN  {one, [i \in DOMAIN one |-> one[Len(one) + 1 - i]]}

(***************************************************************************)
(* get_stored_firmware                                                     *)
(***************************************************************************)
\* a lookup that keeps the last record whose name contains the key
LastMatch(catalog, key) ==
    LET hits == {k \in DOMAIN catalog : Contains(catalog[k].name, key)}
    IN  IF hits = {} THEN 0 ELSE CHOOSE k \in hits : \A j \in hits : j <= k

\* for firmware in self.firmwares: if parsed_router_model in firmware.name:
\* return firmware.  The position of the record returned, 0 for None.
FirstMatch(catalog, key) ==
    LET hits == {k \in DOMAIN catalog : Contains(catalog[k].name, key)}
    IN  IF hits = {} THEN 0 ELSE CHOOSE k \in hits : \A j \in hits : k <= j

\* router_model_name + "-" + router_model_version
ParsedRouterModel(p) == p.router_model_name \o <<"-">> \o p.router_model_version

\* the value returned when nothing matches
None == [name |-> <<>>]

GetStoredFirmware(catalog, router_model) ==
    Only({
      IF p.raised THEN [raised |-> TRUE, index |-> 0, value |-> None]
      ELSE Only({[raised |-> FALSE, index |-> k,
                  value |-> IF k = 0 THEN None ELSE catalog[k]]
                 : k \in {FirstMatch(catalog, ParsedRouterModel(p))}})
      : p \in {ParseRouterModel(router_model)}})

(***************************************************************************)
(* download_firmware                                                       *)
(***************************************************************************)
DownloadFirmware(router_model, release_model, manifest, mscript, scripts, max_attemps) ==
    Only({
      LET io == [created |-> all.created]
      IN  IF all.raised \/ p.raised
          THEN [raised |-> TRUE, index |-> 0, value |-> None, verified |-> FALSE,
                calls |-> <<>>, stored |-> all.stored] @@ io
          ELSE Only({
                 IF i = 0
                 THEN [raised |-> FALSE, index |-> 0, value |-> None, verified |-> FALSE,
                       calls |-> <<>>, stored |-> all.stored] @@ io
                 ELSE Only({[raised |-> vd.raised, index |-> i,
                             value |-> IF vd.raised THEN None ELSE all.firmwares[i],
                             verified |-> vd.value,
                             calls |-> <<[name |-> all.firmwares[i].name,
                                          hash |-> all.hashs[i], origin |-> i]>>,
                             stored |-> all.stored \cup
                                 (IF vd.stored THEN {all.firmwares[i].name} ELSE {})] @@ io
                            : vd \in {VerifiedDownload(scripts[i], max_attemps)}})
                 : i \in {FirstMatch(all.firmwares, ParsedRouterModel(p))}})
      : all \in {GetAllFirmwares(release_model, manifest, mscript)},
        p \in {ParseRouterModel(router_model)}})

(***************************************************************************)
(* get_firmware                                                            *)
(***************************************************************************)
\* srv is the server: the rows of its manifest, how the fetch of the manifest
\* goes (mscript) and how the fetch of each image goes (scripts).
ServerManifest(srv) == RenderManifest(srv.rows, SignedFooter)

\* an assignment in place of the append: self.firmwares = [firmware]
ReplaceByDownloaded(catalog, firmware) == <<firmware>>

\* self.firmwares.append(firmware)
AppendDownloaded(catalog, firmware) == Append(catalog, firmware)

\* the download_all branch, after the import
GetFirmwareAll(imported, dir, srv, router_model, release_model) ==
    Only({
      IF da.raised
      THEN [raised |-> TRUE, index |-> 0, value |-> None, firmwares |-> imported,
            files |-> AfterDownload(dir, da), replaced |-> FALSE, appended |-> FALSE,
            fetched |-> da.created]
      ELSE GetStoredFirmware(da.value, router_model) @@
           [firmwares |-> da.value, files |-> AfterDownload(dir, da),
            replaced |-> TRUE, appended |-> FALSE, fetched |-> da.created]
      : da \in {DownloadAllFirmwares(release_model, ServerManifest(srv), srv.mscript,
                                     srv.scripts, DefaultMaxAttempts)}})

\* the single-record branch, after the catalog held no match
GetFirmwareOne(imported, dir, srv, router_model, release_model) ==
    Only({
      IF df.raised
      THEN [raised |-> TRUE, index |-> 0, value |-> None, firmwares |-> imported,
            files |-> AfterDownload(dir, df), replaced |-> FALSE, appended |-> FALSE,
            fetched |-> df.created]
      ELSE Only({GetStoredFirmware(grown, router_model) @@
                 [firmwares |-> grown, files |-> AfterDownload(dir, df),
                  replaced |-> FALSE, appended |-> df.index # 0,
                  fetched |-> df.created]
                    : grown \in {IF df.index # 0
                                 THEN AppendDownloaded(imported, df.value)
                                 ELSE imported}})
      : df \in {DownloadFirmware(router_model, release_model, ServerManifest(srv),
                                 srv.mscript, srv.scripts, DefaultMaxAttempts)}})

\* a get_firmware that downloads without looking at the catalog first
GetFirmwareNoLookup(catalog, dir, srv, router_model, release_model, download_all, listing) ==
    Only({
      (IF download_all
       THEN GetFirmwareAll(imported, dir, srv, router_model, release_model)
       ELSE GetFirmwareOne(imported, dir, srv, router_model, release_model))
      @@ [imported |-> Len(imported) - Len(catalog)]
      : imported \in {ImportFirmwares(catalog, release_model, dir, listing)}})

GetFirmware(catalog, dir, srv, router_model, release_model, download_all, listing) ==
    Only({
      (IF download_all
       THEN GetFirmwareAll(imported, dir, srv, router_model, release_model)
       ELSE Only({
              IF stored.raised \/ stored.index # 0
              THEN stored @@ [firmwares |-> imported, files |-> dir,
                              replaced |-> FALSE, appended |-> FALSE,
                              fetched |-> FALSE]
              ELSE GetFirmwareOne(imported, dir, srv, router_model, release_model)
              : stored \in {GetStoredFirmware(imported, router_model)}}))
      @@ [imported |-> Len(imported) - Len(catalog)]   \* records the import added
      : imported \in {ImportFirmwares(catalog, release_model, dir, listing)}})

(***************************************************************************)
(* A handler and the calls made on it.                                     *)
(***************************************************************************)
RowA2 == [RowA("published") EXCEPT !.version = <<"1", ".", "3">>, !.hash = <<"h", "3">>]

ServerRows == {RowA("published"), RowB("published")}
ServerScripts == {Always("match"), Always("fetchFail")}

Servers ==
    {[rows |-> rows, scripts |-> scripts, mscript |-> mscript] :
        rows \in SeqsUpTo(ServerRows, MaxServerRows),
        scripts \in SeqsUpTo(ServerScripts, MaxServerRows),
        mscript \in {FailThenOk(0), FailThenOk(FetchScriptLen)}}

\* 'A v1', 'B v2', and a model without separator
CalledModels == {<<"A", " ", "v", "1">>, <<"B", " ", "v", "2">>, <<"A">>}

\* the storage directory is missing, or holds an image of an earlier release
InitialDirs == {NoFiles, [exists |-> TRUE, names |-> {ImageName(RowA2)}]}

\* a manifest lists an image once, and every listed image has its script; the
\* rows of a manifest that can never be fetched are never read
WellFormedServer(srv) ==
    /\ Len(srv.scripts) = Len(srv.rows)
    /\ \A i, j \in DOMAIN srv.rows : srv.rows[i] = srv.rows[j] => i = j
    /\ srv.mscript # FailThenOk(0) => srv.rows = <<>>

Init ==
    /\ firmwares = <<>>
    /\ files \in InitialDirs
    /\ server \in {srv \in Servers : WellFormedServer(srv)}
    /\ last = [op |-> "__init__"]

DoGetFirmware ==
    \E router_model \in CalledModels, download_all \in BOOLEAN, listing \in Listings(files) :
        \E ret \in {GetFirmware(firmwares, files, server, router_model, STABLE,
                               download_all, listing)} :
            /\ Len(ret.firmwares) <= MaxCatalog
            /\ firmwares' = ret.firmwares
            /\ files' = ret.files
            /\ last' = [op |-> "get_firmware", router_model |-> router_model,
                        download_all |-> download_all, before |-> firmwares,
                        files_before |-> files,
                        ret |-> [raised |-> ret.raised, index |-> ret.index,
                                 value |-> ret.value, replaced |-> ret.replaced,
                                 appended |-> ret.appended, fetched |-> ret.fetched,
                                 imported |-> ret.imported]]
            /\ UNCHANGED server

DoGetStoredFirmware ==
    \E router_model \in CalledModels :
        /\ last' = [op |-> "get_stored_firmware", router_model |-> router_model,
                    before |-> firmwares,
                    ret |-> GetStoredFirmware(firmwares, router_model)]
        /\ UNCHANGED <<firmwares, files, server>>

DoDownloadFirmware ==
    \E router_model \in CalledModels :
        \E ret \in {DownloadFirmware(router_model, STABLE, ServerManifest(server),
                                    server.mscript, server.scripts, DefaultMaxAttempts)} :
            /\ files' = AfterDownload(files, ret)
            /\ last' = [op |-> "download_firmware", router_model |-> router_model,
                        before |-> firmwares,
                        ret |-> [raised |-> ret.raised, index |-> ret.index,
                                 value |-> ret.value, verified |-> ret.verified,
                                 calls |-> ret.calls]]
            /\ UNCHANGED <<firmwares, server>>

DoDownloadAllFirmwares ==
    \E ret \in {DownloadAllFirmwares(STABLE, ServerManifest(server), server.mscript,
                                    server.scripts, DefaultMaxAttempts)} :
        /\ files' = AfterDownload(files, ret)
        /\ last' = [op |-> "download_all_firmwares", before |-> firmwares,
                    ret |-> [raised |-> ret.raised, value |-> ret.value,
                             calls |-> ret.calls]]
        /\ UNCHANGED <<firmwares, server>>

DoImportFirmwares ==
    \E listing \in Listings(files) :
        \E catalog \in {ImportFirmwares(firmwares, STABLE, files, listing)} :
            /\ Len(catalog) <= MaxCatalog
            /\ firmwares' = catalog
            /\ last' = [op |-> "import_firmwares", before |-> firmwares]
            /\ UNCHANGED <<files, server>>

Next ==
    \/ DoGetFirmware
    \/ DoGetStoredFirmware
    \/ DoDownloadFirmware
    \/ DoDownloadAllFirmwares
    \/ DoImportFirmwares

Spec == Init /\ [][Next]_vars

\* the key get_stored_firmware looks for: '<normalized name>-<version>'
KeyOf(router_model) == ParsedRouterModel(ParseRouterModel(router_model))

Matches(record, router_model) == Contains(record.name, KeyOf(router_model))

StoredReturned ==
    /\ last.op = "get_stored_firmware"
    /\ Contains(last.router_model, SPACE_V)

\* C6: for a valid router model, get_stored_firmware returns the record at
\* the smallest catalog index whose name contains the key, None exactly when
\* no record contains it, and leaves the catalog as it was.
C6_FirstMatchWins ==
    StoredReturned
        => /\ ~last.ret.raised
           /\ firmwares = last.before
           /\ (last.ret.index = 0) <=>
                 (\A k \in DOMAIN firmwares : ~Matches(firmwares[k], last.router_model))
           /\ last.ret.index = 0 => last.ret.value = None
           /\ last.ret.index # 0 =>
                 /\ last.ret.index \in DOMAIN firmwares
                 /\ last.ret.value = firmwares[last.ret.index]
                 /\ Matches(firmwares[last.ret.index], last.router_model)
                 /\ \A k \in 1..(last.ret.index - 1) :
                       ~Matches(firmwares[k], last.router_model)

\* a later, different record matches too
C6_Witness ==
    /\ StoredReturned
    /\ last.ret.index # 0
    /\ \E k \in DOMAIN firmwares :
          /\ k > last.ret.index
          /\ Matches(firmwares[k], last.router_model)
          /\ firmwares[k] # last.ret.value

DownloadOps == {"get_firmware", "download_firmware", "download_all_firmwares"}

\* every record of the catalog before the call is in the catalog after it
KeepsRecords ==
    \A k \in DOMAIN last.before : \E j \in DOMAIN firmwares : firmwares[j] = last.before[k]

\* C7 as stated: no download operation (get_firmware, download_firmware,
\* download_all_firmwares) removes a record from the catalog.
C7_DownloadsNeverRemove ==
    last.op \in DownloadOps => KeepsRecords

\* get_firmware ran with download_all = true and the batch download returned
ReplacedByBatch == last.op = "get_firmware" /\ last.download_all /\ last.ret.replaced

\* C7 amended: download_firmware and download_all_firmwares leave the catalog
\* as it was, and get_firmware removes no record from it (the catalog before
\* the call is a prefix of the catalog after it), except get_firmware with
\* download_all = true, which replaces the catalog by the batch
\* download_all_firmwares returns.
C7_OnlyBatchReplaces ==
    (last.op \in DownloadOps /\ ~ReplacedByBatch)
        => /\ KeepsRecords
           /\ Len(firmwares) >= Len(last.before)
           /\ SubSeq(firmwares, 1, Len(last.before)) = last.before
           /\ last.op # "get_firmware" => firmwares = last.before

\* a single-record get_firmware downloaded and appended to a catalog that
\* already held records
C7_Witness ==
    /\ last.op = "get_firmware"
    /\ ~last.download_all
    /\ last.ret.appended
    /\ last.before # <<>>
    /\ Len(firmwares) > Len(last.before)
    /\ firmwares[Len(firmwares)] = last.ret.value
    /\ KeepsRecords

\* the call took a router model without ' v'
NoSeparatorCall ==
    /\ last.op \in {"get_stored_firmware", "download_firmware"}
    /\ ~Contains(last.router_model, SPACE_V)

\* C12: for a router model without ' v', _parse_router_model raises, so
\* get_stored_firmware and download_firmware raise and return no record, and
\* get_stored_firmware leaves the catalog unchanged.
C12_NoSeparatorFails ==
    NoSeparatorCall
        => /\ ParseRouterModel(last.router_model).raised
           /\ last.ret.raised
           /\ last.ret.index = 0
           /\ last.ret.value = None
           /\ last.op = "get_stored_firmware" => firmwares = last.before

\* the lookup failed on a catalog that holds records
C12_Witness ==
    /\ NoSeparatorCall
    /\ last.op = "get_stored_firmware"
    /\ last.ret.raised
    /\ firmwares # <<>>

(***************************************************************************)
(* import_firmwares and _get_all_firmwares on the same image name: the     *)
(* image is in the storage directory of the channel and in the channel's   *)
(* manifest.                                                               *)
(***************************************************************************)
BETA == <<"b", "e", "t", "a">>
EXPERIMENTAL == <<"e", "x", "p", "e", "r", "i", "m", "e", "n", "t", "a", "l">>
ReleaseModels == {STABLE, BETA, EXPERIMENTAL}

\* extensions of published images: .bin, .img, .img.gz
ImageExts == {<<"b", "i", "n">>, <<"i", "m", "g">>, <<"i", "m", "g", ".", "g", "z">>}
ImageVersions == {<<"1", ".", "2">>, <<"0", ".", "7", ".", "3">>}

PublishedImages ==
    {[r EXCEPT !.ext = ext, !.version = version] :
        r \in {RowA("published"), RowB("published")},
        ext \in ImageExts, version \in ImageVersions}

InitTrip ==
    /\ firmwares = <<>>
    /\ \E r \in PublishedImages, release_model \in ReleaseModels :
          /\ files = [exists |-> TRUE, names |-> {ImageName(r)}]
          /\ server = [rows |-> <<r>>, scripts |-> <<Always("match")>>,
                       mscript |-> FailThenOk(0)]
          /\ last = [op |-> "__init__", release_model |-> release_model,
                     imported |-> FALSE, parsed |-> FALSE, ret |-> <<>>]

CallImportFirmwares ==
    /\ ~last.imported
    /\ \E listing \in Listings(files) :
          firmwares' = ImportFirmwares(firmwares, last.release_model, files, listing)
    /\ last' = [last EXCEPT !.op = "import_firmwares", !.imported = TRUE]
    /\ UNCHANGED <<files, server>>

CallParseManifest ==
    /\ ~last.parsed
    /\ \E ret \in {GetAllFirmwares(last.release_model, ServerManifest(server),
                                  server.mscript)} :
          /\ files' = AfterDownload(files, ret)
          /\ last' = [last EXCEPT !.op = "_get_all_firmwares", !.parsed = TRUE,
                                  !.ret = ret]
    /\ UNCHANGED <<firmwares, server>>

NextTrip == CallImportFirmwares \/ CallParseManifest

SpecTrip == InitTrip /\ [][NextTrip]_vars

\* the image name was imported from the directory and parsed from the manifest
BothBuilt == last.imported /\ last.parsed

\* C13: the record import_firmwares builds from a canonical image name and
\* the record manifest parsing builds for the same name and channel have the
\* same organization, version, local path and source URL.
C13_ImportAgreesWithParse ==
    BothBuilt
        => /\ ~last.ret.raised
           /\ Len(firmwares) = 1
           /\ Len(last.ret.firmwares) = 1
           /\ firmwares[1].freifunk_verein = last.ret.firmwares[1].freifunk_verein
           /\ firmwares[1].version = last.ret.firmwares[1].version
           /\ firmwares[1].file = last.ret.firmwares[1].file
           /\ firmwares[1].url = last.ret.firmwares[1].url

(***************************************************************************)
(* download_firmware, called once on a handler whose catalog is empty or   *)
(* holds one imported record.                                              *)
(***************************************************************************)
SingleRows == {RowA("published"), RowA2, RowB("published")}
SingleScripts == {Always("match"), Always("fetchFail"), Always("oserror")}

\* the record import_firmwares builds for the stored image of row r
StoredRecord(r) == ImportOne(<<>>, STABLE, ImageName(r))[1]

\* a manifest lists an image once
ListedOnce(rows) == \A i, j \in DOMAIN rows : rows[i] = rows[j] => i = j

InitSingle ==
    /\ firmwares \in {<<>>, <<StoredRecord(RowA2)>>}
    /\ files = NoFiles
    /\ server = NoServer
    /\ \E rows \in {l \in SeqsUpTo(SingleRows, MaxEntries) : ListedOnce(l)},
          mscript \in {FailThenOk(0), FailThenOk(FetchScriptLen)},
          router_model \in CalledModels :
          \E scripts \in [1..Len(rows) -> SingleScripts] :
             last = [op |-> "download_firmware", phase |-> "call",
                     router_model |-> router_model, release_model |-> STABLE,
                     rows |-> rows, mscript |-> mscript, scripts |-> scripts,
                     before |-> firmwares]

CallDownloadFirmware ==
    /\ last.op = "download_firmware"
    /\ last.phase = "call"
    /\ \E ret \in {DownloadFirmware(last.router_model, last.release_model,
                                   RenderManifest(last.rows, SignedFooter),
                                   last.mscript, last.scripts, DefaultMaxAttempts)} :
           /\ last' = [last EXCEPT !.phase = "return"] @@ [ret |-> ret]
           /\ files' = AfterDownload(files, ret)
    /\ UNCHANGED <<firmwares, server>>

NextSingle == CallDownloadFirmware

SpecSingle == InitSingle /\ [][NextSingle]_vars

SingleReturned == last.op = "download_firmware" /\ last.phase = "return"

\* the router model is valid, the manifest can be fetched and no attempt ends
\* in a filesystem error
SingleCallCanReturn ==
    /\ Contains(last.router_model, SPACE_V)
    /\ last.mscript = FailThenOk(0)
    /\ \A k \in DOMAIN last.scripts : last.scripts[k] # Always("oserror")

\* the manifest rows whose image name contains the router key
KeyRows ==
    {k \in DOMAIN last.rows :
        Contains(ImageName(last.rows[k]), KeyOf(last.router_model))}

\* C14: download_firmware runs one verified download, for the first manifest
\* entry whose name contains the router key and with that entry's hash, and
\* returns that entry's record whether or not it verified; with no matching
\* entry it returns None and fetches no image; the catalog is never changed.
C14_SingleVerifiedDownload ==
    SingleReturned
        => /\ firmwares = last.before
           /\ SingleCallCanReturn =>
                 /\ ~last.ret.raised
                 /\ KeyRows = {} =>
                       /\ last.ret.value = None
                       /\ last.ret.calls = <<>>
                       /\ files.names = {ManifestFileName(last.release_model)}
                 /\ KeyRows # {} =>
                       \E k \in KeyRows :
                          /\ \A j \in KeyRows : k <= j
                          /\ last.ret.value.name = ImageName(last.rows[k])
                          /\ Len(last.ret.calls) = 1
                          /\ last.ret.calls[1].origin = k
                          /\ last.ret.calls[1].name = ImageName(last.rows[k])
                          /\ last.ret.calls[1].hash = last.rows[k].hash

\* two entries match the key, the first one fails to verify and is returned,
\* and the catalog holds a record
C14_Witness ==
    /\ SingleReturned
    /\ SingleCallCanReturn
    /\ Cardinality(KeyRows) >= 2
    /\ ~last.ret.verified
    /\ last.ret.value # None
    /\ last.ret.calls[1].origin = 1
    /\ last.rows[2].hash # last.rows[1].hash
    /\ firmwares # <<>>

\* get_firmware was called for one record, with a valid router model
OneRecordCall ==
    /\ last.op = "get_firmware"
    /\ ~last.download_all
    /\ Contains(last.router_model, SPACE_V)

\* the catalog as the import step of the call left it
AfterImport == SubSeq(firmwares, 1, Len(last.before) + last.ret.imported)

\* the positions of the records of catalog that match the router model
MatchesIn(catalog) == {k \in DOMAIN catalog : Matches(catalog[k], last.router_model)}

\* C15: get_firmware with download_all = false returns the first record of
\* the catalog, as imported, that matches, fetching nothing and adding no
\* record beyond the imported ones; it fetches only when no record of the
\* catalog matches, and then appends at most one record.
C15_CatalogFirst ==
    OneRecordCall
        => /\ Len(firmwares) >= Len(last.before) + last.ret.imported
           /\ SubSeq(firmwares, 1, Len(last.before)) = last.before
           /\ MatchesIn(AfterImport) # {} =>
                 /\ ~last.ret.fetched
                 /\ files = last.files_before
                 /\ firmwares = AfterImport
                 /\ ~last.ret.raised
                 /\ last.ret.index \in MatchesIn(AfterImport)
                 /\ \A j \in MatchesIn(AfterImport) : last.ret.index <= j
                 /\ last.ret.value = firmwares[last.ret.index]
           /\ MatchesIn(AfterImport) = {} =>
                 /\ last.ret.fetched
                 /\ Len(firmwares) <= Len(AfterImport) + 1

\* the catalog held no match before the call, the import brought one, and
\* nothing was fetched
C15_Witness ==
    /\ OneRecordCall
    /\ MatchesIn(last.before) = {}
    /\ last.ret.imported > 0
    /\ MatchesIn(AfterImport) # {}
    /\ ~last.ret.fetched
    /\ last.ret.index > Len(last.before)
    /\ last.before # <<>>

ImportReturned == last.op = "import_firmwares" /\ "before" \in DOMAIN last

\* the file names of the storage directory with at least 3 hyphen-delimited
\* segments, i.e. at least 2 hyphens
Importable ==
    {n \in files.names : Cardinality({i \in DOMAIN n : n[i] = "-"}) >= 2}

\* C18: import_firmwares only appends: the records of the catalog keep
\* their positions; a missing directory adds nothing; otherwise one record
\* is added for every file name with at least 3 hyphen-delimited segments,
\* whatever other names the directory holds.
C18_ImportOnlyAppends ==
    ImportReturned
        => /\ Len(firmwares) >= Len(last.before)
           /\ SubSeq(firmwares, 1, Len(last.before)) = last.before
           /\ ~files.exists => firmwares = last.before
           /\ files.exists =>
                 /\ Len(firmwares) = Len(last.before) + Cardinality(Importable)
                 /\ {firmwares[k].name : k \in (Len(last.before) + 1)..Len(firmwares)}
                       = Importable

\* the directory holds the manifest file, which is skipped, and an image,
\* which is imported behind the records the catalog already held
C18_Witness ==
    /\ ImportReturned
    /\ last.before # <<>>
    /\ ManifestFileName(STABLE) \in files.names
    /\ Importable # {}
    /\ Len(firmwares) > Len(last.before)

(***************************************************************************)
(* One handler on which only get_firmware(..., download_all=False) is      *)
(* called, MaxLookups times at most.  `log` is the caller's record of the  *)
(* calls so far: the router model asked for and what the call returned     *)
(* (the record and its position in self.firmwares, which tells a record    *)
(* from an equal duplicate).                                               *)
(***************************************************************************)
\* the storage directory is missing, or holds one or two images of model a-v1
RepeatDirs ==
    {NoFiles,
     [exists |-> TRUE, names |-> {ImageName(RowA2)}],
     [exists |-> TRUE, names |-> {ImageName(RowA("published")), ImageName(RowA2)}]}

InitRepeat ==
    /\ firmwares = <<>>
    /\ files \in RepeatDirs
    /\ server \in {srv \in Servers : WellFormedServer(srv)}
    /\ last = [op |-> "__init__", log |-> <<>>]

CallGetFirmware ==
    /\ Len(last.log) < MaxLookups
    /\ \E router_model \in CalledModels, listing \in Listings(files) :
          \E ret \in {GetFirmware(firmwares, files, server, router_model, STABLE,
                                 FALSE, listing)} :
              /\ firmwares' = ret.firmwares
              /\ files' = ret.files
              /\ last' = [op |-> "get_firmware",
                          log |-> Append(last.log,
                                         [router_model |-> router_model,
                                          raised |-> ret.raised,
                                          index |-> ret.index,
                                          value |-> ret.value,
                                          imported |-> ret.imported])]
              /\ UNCHANGED server

NextRepeat == CallGetFirmware

SpecRepeat == InitRepeat /\ [][NextRepeat]_vars

\* call i returned a record
Answered(i) == ~last.log[i].raised /\ last.log[i].value # None

\* C21: once a single-record get_firmware for a router model has returned a
\* record, every later single-record get_firmware for that router model
\* returns the same record (the one at the same position of the catalog),
\* whatever the calls in between imported and appended.
C21_AnswersAreStable ==
    \A i, j \in DOMAIN last.log :
        (i < j /\ Answered(i) /\ last.log[j].router_model = last.log[i].router_model)
            => /\ Answered(j)
               /\ last.log[j].value = last.log[i].value
               /\ last.log[j].index = last.log[i].index

\* the directory holds two images that match the model, the second call
\* listed and imported them again, the catalog holds duplicates, and the
\* call answered with the record the first call returned
C21_Witness ==
    /\ Len(last.log) >= 2
    /\ Answered(1)
    /\ last.log[2].router_model = last.log[1].router_model
    /\ last.log[2].imported >= 2
    /\ Len(firmwares) >= 4
    /\ \E k \in DOMAIN firmwares :
          k > last.log[1].index /\ firmwares[k] # last.log[1].value
                                /\ Contains(firmwares[k].name, KeyOf(last.log[1].router_model))
    /\ \E k \in DOMAIN firmwares :
          k > last.log[1].index /\ firmwares[k] = last.log[1].value
    /\ Answered(2)

====
